---- MODULE Spec2Model ----
(***************************************************************************)
(* Verification model of the shruti audio asset generators:                *)
(*   scripts/generate_reference_plucks.py  (Karplus-Strong plucks)         *)
(*   scripts/generate_tanpura_files.py     (additive strings, cycle mixer, *)
(*                                          stereo renderer, batch driver) *)
(*                                                                         *)
(* Buffer sizes are computed by the code in IEEE-754 double arithmetic and *)
(* then truncated with int(); the model keeps both steps (Double, FMulInt, *)
(* PyInt).  Sample values are modelled as exact reduced fractions extended *)
(* with inf (n/0) and nan (0/0).                                           *)
(***************************************************************************)
EXTENDS Integers, Sequences, FiniteSets, TLC

VARIABLES
    \* karplus_strong_pluck
    ks_pc, ks_args, num_samples, delay_length, delay_line, output, ks_i, ks_exc,
    \* generate_string_pluck
    sp_pc, sp_call, samples, sp_h,
    \* generate_tanpura_cycle
    cy_pc, cy_cfg, cy_args, all_strings, beat_interval_samples, cycle_size,
    mono_buffer, string_index, cy_i, stereo_timing_offset, stereo_buffer, cy_exc,
    \* main of either script
    mn_pc, mn_script, file_count, written, mn_exc

ksVars == <<ks_pc, ks_args, num_samples, delay_length, delay_line, output, ks_i, ks_exc>>

spVars == <<sp_pc, sp_call, samples, sp_h>>

cyVars == <<cy_pc, cy_cfg, cy_args, all_strings, beat_interval_samples, cycle_size,
            mono_buffer, string_index, cy_i, stereo_timing_offset, stereo_buffer, cy_exc>>

mnVars == <<mn_pc, mn_script, file_count, written, mn_exc>>

vars == <<ksVars, spVars, cyVars, mnVars>>

(***************************************************************************)
(* Python float (IEEE-754 binary64) arithmetic on positive values.         *)
(* A double is [m |-> mantissa bits, least significant first, e |-> exp]   *)
(* with value m * 2^e; non-zero doubles carry exactly MantBits bits.       *)
(***************************************************************************)
MantBits == 53

\* number of binary fraction digits produced before rounding a quotient
FracDigits == MantBits + 37

\* the bits of n, least significant first
NatBits(n) ==
    LET L == Cardinality({k \in 0..30 : 2^k <= n})
    IN  [j \in 1..L |-> (n \div 2^(j - 1)) % 2]

\* the number whose bits lo..hi of b are, by halving
RECURSIVE BitsNatRange(_, _, _)
BitsNatRange(b, lo, hi) ==
    IF lo = hi THEN b[lo]
    ELSE LET mid == (lo + hi) \div 2
         IN  BitsNatRange(b, lo, mid) + 2^(mid - lo + 1) * BitsNatRange(b, mid + 1, hi)

\* the number whose bits, least significant first, are b (below 2^31)
BitsNat(b) == IF Len(b) = 0 THEN 0 ELSE BitsNatRange(b, 1, Len(b))

\* b without its leading (most significant) zeros
TrimTop(b) ==
    LET ones == {j \in 1..Len(b) : b[j] = 1}
    IN  IF ones = {} THEN <<>>
        ELSE SubSeq(b, 1, CHOOSE m \in ones : \A j \in ones : j <= m)

\* b * n + c for a mantissa b (at most four limbs of 14 bits) and n, c
\* below 2^16; the product may carry leading zeros
MulSmall(b, n, c) ==
    LET Limb(m) == IF 14 * m - 13 > Len(b) THEN 0
                   ELSE BitsNat(SubSeq(b, 14 * m - 13,
                                       IF 14 * m < Len(b) THEN 14 * m ELSE Len(b)))
        Low(t)  == [j \in 1..14 |-> (t \div 2^(j - 1)) % 2]
        t1 == Limb(1) * n + c
        t2 == Limb(2) * n + t1 \div 2^14
        t3 == Limb(3) * n + t2 \div 2^14
        t4 == Limb(4) * n + t3 \div 2^14
    IN  Low(t1) \o Low(t2) \o Low(t3) \o Low(t4) \o NatBits(t4 \div 2^14)

\* b + 1
BitsInc(b) ==
    LET zs == {j \in 1..Len(b) : b[j] = 0}
    IN  IF zs = {} THEN [j \in 1..(Len(b) + 1) |-> IF j <= Len(b) THEN 0 ELSE 1]
        ELSE LET z == CHOOSE m \in zs : \A j \in zs : m <= j
             IN  [j \in 1..Len(b) |-> IF j < z THEN 0 ELSE IF j = z THEN 1 ELSE b[j]]

Zeros(k) == [j \in 1..k |-> 0]

\* round-to-nearest, ties-to-even, of bits * 2^e to a MantBits-bit mantissa
RoundNearestEven(bits, e) ==
    LET b == TrimTop(bits)
        L == Len(b)
    IN  IF L = 0 THEN [m |-> <<>>, e |-> 0]
        ELSE IF L <= MantBits
             THEN [m |-> Zeros(MantBits - L) \o b, e |-> e - (MantBits - L)]
        ELSE LET k      == L - MantBits
                 kept   == SubSeq(b, k + 1, L)
                 guard  == b[k]
                 sticky == \E j \in 1..(k - 1) : b[j] = 1
                 up     == guard = 1 /\ (sticky \/ kept[1] = 1)
                 r      == IF up THEN BitsInc(kept) ELSE kept
             IN  IF Len(r) > MantBits
                 THEN [m |-> SubSeq(r, 2, Len(r)), e |-> e + k + 1]
                 ELSE [m |-> r, e |-> e + k]

\* the fraction digits of r/q (r < q < 2^16), most significant first, with a
\* final sticky digit recording a non-zero remainder; long division, two
\* groups of up to 15 digits at a time
RECURSIVE FracBits(_, _, _)
FracBits(r, q, k) ==
    IF k = 0 THEN <<IF r = 0 THEN 0 ELSE 1>>
    ELSE LET Digits(d, c) == [j \in 1..c |-> (d \div 2^(c - j)) % 2]
             c1 == IF k < 15 THEN k ELSE 15
             t1 == r * 2^c1
             c2 == IF k - c1 < 15 THEN k - c1 ELSE 15
             t2 == (t1 % q) * 2^c2
         IN  Digits(t1 \div q, c1) \o Digits(t2 \div q, c2)
                 \o FracBits(t2 % q, q, k - c1 - c2)

Reverse(s) == [j \in 1..Len(s) |-> s[Len(s) + 1 - j]]

\* the double nearest to p/q: a decimal literal, or a correctly rounded quotient
Double(p, q) ==
    RoundNearestEven(Reverse(FracBits(p % q, q, FracDigits)) \o NatBits(p \div q),
                     0 - (FracDigits + 1))

\* float * int
FMulInt(x, n) == RoundNearestEven(MulSmall(x.m, n, 0), x.e)

\* int(x) for x >= 0: truncation
PyInt(x) ==
    IF x.m = <<>> \/ 0 - x.e >= Len(x.m) THEN 0
    ELSE IF x.e >= 0 THEN BitsNat(Zeros(x.e) \o x.m)
    ELSE BitsNat(SubSeq(x.m, 1 - x.e, Len(x.m)))

\* int(f * n) for the float literal f = p/q: the literal, the product and the
\* truncation, each carried out on the value of the one before
IntOfProduct(p, q, n) ==
    CHOOSE k \in { PyInt(y) : y \in { FMulInt(x, n) : x \in {Double(p, q)} } } : TRUE

\* round(p/q) in real arithmetic, p >= 0, q > 0 (ties to even, as Python's round)
Round(p, q) ==
    LET f == p \div q
        r == p % q
    IN  IF 2 * r < q THEN f
        ELSE IF 2 * r > q THEN f + 1
        ELSE IF f % 2 = 0 THEN f ELSE f + 1

(***************************************************************************)
(* Sample values: exact reduced fractions [n, d]; d = 0 encodes the        *)
(* non-finite floats (n/0 with n # 0 is +-inf, 0/0 is nan).  Arithmetic on *)
(* them is exact: the rounding of a float sum, product or quotient of      *)
(* samples, at most one unit in the last place each, is not modelled.      *)
(***************************************************************************)
Abs(x) == IF x < 0 THEN 0 - x ELSE x

Sgn(x) == IF x < 0 THEN 0 - 1 ELSE IF x > 0 THEN 1 ELSE 0

\* Euclid's algorithm, six remainder steps at a time
RECURSIVE GCD(_, _)
GCD(a, b) ==
    IF b = 0 THEN a
    ELSE LET r1 == a % b
             r2 == IF r1 = 0 THEN 0 ELSE b % r1
             r3 == IF r2 = 0 THEN 0 ELSE r1 % r2
             r4 == IF r3 = 0 THEN 0 ELSE r2 % r3
             r5 == IF r4 = 0 THEN 0 ELSE r3 % r4
             r6 == IF r5 = 0 THEN 0 ELSE r4 % r5
         IN  IF r1 = 0 THEN b
             ELSE IF r2 = 0 THEN r1
             ELSE IF r3 = 0 THEN r2
             ELSE IF r4 = 0 THEN r3
             ELSE IF r5 = 0 THEN r4
             ELSE GCD(r5, r6)

Q(n, d) ==
    IF d = 0 THEN [n |-> Sgn(n), d |-> 0]
    ELSE LET g == GCD(Abs(n), Abs(d))
         IN  [n |-> Sgn(d) * (n \div g), d |-> Abs(d) \div g]

QZero == Q(0, 1)

QOne == Q(1, 1)

IsNaN(a) == a.d = 0 /\ a.n = 0

\* products are cross-reduced first, so that intermediate values stay small
QMul(a, b) ==
    LET g1 == GCD(Abs(a.n), b.d)
        g2 == GCD(Abs(b.n), a.d)
    IN  IF a.d = 0 \/ b.d = 0 \/ a.n = 0 \/ b.n = 0 THEN Q(a.n * b.n, a.d * b.d)
        ELSE Q((a.n \div g1) * (b.n \div g2), (a.d \div g2) * (b.d \div g1))

QDiv(a, b) == QMul(a, Q(b.d * Sgn(b.n + b.d), Abs(b.n)))

QAdd(a, b) ==
    IF a.d = 0 /\ b.d = 0 THEN (IF a.n = b.n THEN a ELSE Q(0, 0))
    ELSE IF a.d = 0 \/ b.d = 0 THEN Q(a.n * b.d + b.n * a.d, 0)
    ELSE LET g == GCD(a.d, b.d)
         IN  Q(a.n * (b.d \div g) + b.n * (a.d \div g), (a.d \div g) * b.d)

QSub(a, b) == QAdd(a, Q(0 - b.n, b.d))

QAbs(a) == [n |-> Abs(a.n), d |-> a.d]

\* a > b on floats: False whenever a nan is involved
QGt(a, b) ==
    /\ ~IsNaN(a) /\ ~IsNaN(b)
    /\ IF a.d > 0 /\ b.d > 0 THEN QSub(a, b).n > 0
       ELSE IF a.d = 0 /\ b.d = 0 THEN a.n > b.n
       ELSE IF a.d = 0 THEN a.n > 0 ELSE b.n < 0

\* the larger magnitude of two, nan if either is
QMaxAbs2(a, b) ==
    IF IsNaN(a) \/ IsNaN(b) THEN Q(0, 0)
    ELSE IF QGt(QAbs(b), QAbs(a)) THEN QAbs(b) ELSE QAbs(a)

\* np.max(np.abs(buf[lo..hi])) of a non-empty range, by halving
RECURSIVE MaxAbsRange(_, _, _)
MaxAbsRange(buf, lo, hi) ==
    IF lo = hi THEN QMaxAbs2(buf[lo], buf[lo])
    ELSE LET mid == (lo + hi) \div 2
         IN  QMaxAbs2(MaxAbsRange(buf, lo, mid), MaxAbsRange(buf, mid + 1, hi))

\* np.max(np.abs(buf)) of a non-empty buffer
MaxAbs(buf) == MaxAbsRange(buf, 1, Len(buf))

\* np.zeros(n)
NpZeros(n) == [j \in 1..n |-> QZero]

\* np.linspace(a, b, n)[k], k counted from 0
Linspace(a, b, n, k) ==
    IF n = 1 THEN a ELSE QAdd(a, QMul(QSub(b, a), Q(k, n - 1)))

\* np.roll(a, shift)
NpRoll(a, shift) == [j \in 1..Len(a) |-> a[((j - 1 - shift) % Len(a)) + 1]]

(***************************************************************************)
(* generate_reference_plucks.py                                            *)
(***************************************************************************)
SAMPLE_RATE == 44100

\* largest buffer the sample-by-sample loops of the model walk through
MaxSamples == 4500

\* number of excitation noise patterns besides silence
NoisePatterns == 2

\* np.random.uniform(-1.0, 1.0, n): one of the noise vectors the model draws,
\* values in [-1, 1); pattern 0 is the all-zero draw
Noise(p, j) == IF p = 0 THEN QZero ELSE Q(((p * j + p) % 4) - 2, 2)

NpRandomUniform(p, n) == [j \in 1..n |-> Noise(p, j)]

\* int(SAMPLE_RATE * duration), duration the float nearest dur.p / dur.q
NumSamples(dur) == IntOfProduct(dur.p, dur.q, SAMPLE_RATE)

\* a delay length rounded to nearest instead of truncated
DelayLengthRounded(frequency) == Sgn(frequency) * Round(SAMPLE_RATE, Abs(frequency))

\* int(SAMPLE_RATE / frequency), frequency # 0 an integral float
DelayLength(frequency) ==
    Sgn(frequency) *
        (CHOOSE k \in { PyInt(x) : x \in {Double(SAMPLE_RATE, Abs(frequency))} } : TRUE)

FadeInSamples == IntOfProduct(1, 100, SAMPLE_RATE)

FadeOutSamples == IntOfProduct(1, 10, SAMPLE_RATE)

\* the feedback sample computed from the two front samples of the delay line
NewSample(d0, d1, decay, brightness) ==
    LET filtered == QDiv(QAdd(d0, d1), Q(2, 1))
    IN  QMul(QAdd(QMul(brightness, d0), QMul(QSub(QOne, brightness), filtered)), decay)

\* a shift that overwrites the head instead of rotating it out
ShiftInNoRoll(line, new_sample) == [line EXCEPT ![Len(line)] = new_sample]

\* the shifted delay line with the new sample at its end
ShiftIn(line, new_sample) == [NpRoll(line, 0 - 1) EXCEPT ![Len(line)] = new_sample]

Dur(p, q) == [p |-> p, q |-> q]

Call(f, dur, decay, brightness, noise) ==
    [frequency |-> f, duration |-> dur, decay |-> decay, brightness |-> brightness,
     noise |-> noise]

\* the calls of karplus_strong_pluck the model explores
PluckCalls ==
    \* short buffers: the feedback loop runs in full
    { Call(f, Dur(k, 10000), dc, br, nz) :
        f \in {22050, 14700, 16000}, k \in {1, 2}, dc \in {Q(1, 2), QOne},
        br \in {QZero, Q(1, 2), QOne}, nz \in 0..NoisePatterns }
    \cup
    \* frequencies without a usable delay line
    { Call(f, Dur(k, 10000), Q(1, 2), Q(1, 2), 1) :
        f \in {0, 0 - 110, 0 - 50000, 30000, 50000}, k \in {1, 2} }
    \cup
    \* the reference pluck of main(): 110 Hz for PLUCK_DURATION
    { Call(110, Dur(1, 1), Q(996, 1000), Q(4, 10), 1) }

\* calls with buffers of 10 ms and 100 ms, which the fades fit into
PluckCallsFaded ==
    { Call(22050, Dur(k, 100), QOne, QOne, nz) : k \in {1, 10}, nz \in {0, 1} }

\* no exception is propagating
NoException == [type |-> "none", at |-> "none"]

\* main() has met no failing combination
NoFailure == [file |-> <<>>, cause |-> "none"]

\* the part of the state a specification does not exercise
KsIdle ==
    /\ ks_pc = "idle" /\ ks_args = <<>> /\ num_samples = 0 /\ delay_length = 0
    /\ delay_line = <<>> /\ output = <<>> /\ ks_i = 0 /\ ks_exc = NoException

SpIdle == sp_pc = "idle" /\ sp_call = <<>> /\ samples = <<>> /\ sp_h = 0

CyIdle ==
    /\ cy_pc = "idle" /\ cy_cfg = <<>> /\ cy_args = <<>> /\ all_strings = <<>>
    /\ beat_interval_samples = 0 /\ cycle_size = 0 /\ mono_buffer = <<>>
    /\ string_index = 0 /\ cy_i = 0 /\ stereo_timing_offset = 0
    /\ stereo_buffer = <<>> /\ cy_exc = NoException

MnIdle ==
    /\ mn_pc = "idle" /\ mn_script = "none" /\ file_count = 0 /\ written = {}
    /\ mn_exc = NoFailure

KsInitOf(calls) ==
    /\ SpIdle /\ CyIdle /\ MnIdle
    /\ ks_pc = "call"
    /\ ks_args \in calls
    /\ num_samples = 0
    /\ delay_length = 0
    /\ delay_line = <<>>
    /\ output = <<>>
    /\ ks_i = 0
    /\ ks_exc = NoException

KsRaise(exc, at) ==
    /\ ks_pc' = "raised"
    /\ ks_exc' = [type |-> exc, at |-> at]

\* lines 64-67: buffer sizes
KsSizes ==
    /\ UNCHANGED <<spVars, cyVars, mnVars>>
    /\ ks_pc = "call"
    /\ num_samples' = NumSamples(ks_args.duration)
    /\ IF ks_args.frequency = 0
       THEN /\ KsRaise("ZeroDivisionError", "delay_length")
            /\ UNCHANGED delay_length
       ELSE /\ delay_length' = DelayLength(ks_args.frequency)
            /\ ks_pc' = "alloc"
            /\ UNCHANGED ks_exc
    /\ UNCHANGED <<ks_args, delay_line, output, ks_i>>

\* lines 70-73: noise-filled delay line, zeroed output buffer
KsAlloc ==
    /\ UNCHANGED <<spVars, cyVars, mnVars>>
    /\ ks_pc = "alloc"
    /\ IF delay_length < 0
       THEN /\ KsRaise("ValueError", "delay_line")
            /\ UNCHANGED <<delay_line, output>>
       ELSE /\ delay_line' = NpRandomUniform(ks_args.noise, delay_length)
            /\ output' = NpZeros(num_samples)
            /\ ks_pc' = "loop"
            /\ UNCHANGED ks_exc
    /\ UNCHANGED <<ks_args, num_samples, delay_length, ks_i>>

\* lines 76-90: one iteration of the feedback loop
KsLoop ==
    /\ UNCHANGED <<spVars, cyVars, mnVars>>
    /\ ks_pc = "loop"
    /\ num_samples <= MaxSamples
    /\ ks_i < num_samples
    /\ IF Len(delay_line) = 0
       THEN /\ KsRaise("IndexError", "loop")
            /\ UNCHANGED <<delay_line, output, ks_i>>
       ELSE IF Len(delay_line) = 1
       THEN /\ output' = [output EXCEPT ![ks_i + 1] = delay_line[1]]
            /\ KsRaise("IndexError", "loop")
            /\ UNCHANGED <<delay_line, ks_i>>
       ELSE /\ output' = [output EXCEPT ![ks_i + 1] = delay_line[1]]
            /\ delay_line' = ShiftIn(delay_line,
                                NewSample(delay_line[1], delay_line[2],
                                          ks_args.decay, ks_args.brightness))
            /\ ks_i' = ks_i + 1
            /\ UNCHANGED <<ks_pc, ks_exc>>
    /\ UNCHANGED <<ks_args, num_samples, delay_length>>

\* output[:n] *= np.linspace(0.0, 1.0, n) on a buffer of at least n samples
FadeIn(out, n) ==
    [j \in 1..Len(out) |->
        IF j <= n THEN QMul(out[j], Linspace(QZero, QOne, n, j - 1)) ELSE out[j]]

\* output[-n:] *= np.linspace(1.0, 0.0, n) on a buffer of at least n samples
FadeOut(out, n) ==
    [j \in 1..Len(out) |->
        IF j > Len(out) - n
        THEN QMul(out[j], Linspace(QOne, QZero, n, j - (Len(out) - n) - 1))
        ELSE out[j]]

\* output / max_amp * 0.8 when the peak is positive
Normalize(out, max_amp) ==
    IF QGt(max_amp, QZero)
    THEN [j \in 1..Len(out) |-> QMul(QDiv(out[j], max_amp), Q(8, 10))]
    ELSE out

\* an in-place product of a k-sample slice with an n-sample ramp is defined
\* only when the ramp broadcasts to the slice
Broadcasts(k, n) == k = n \/ n = 1

Min(a, b) == IF a < b THEN a ELSE b

\* lines 92-107: fade in, fade out, peak normalisation, return
KsPostProcess ==
    /\ UNCHANGED <<spVars, cyVars, mnVars>>
    /\ ks_pc = "loop"
    /\ num_samples <= MaxSamples
    /\ ks_i = num_samples
    /\ \E fade_in_samples \in {FadeInSamples}, fade_out_samples \in {FadeOutSamples} :
         IF ~Broadcasts(Min(num_samples, fade_in_samples), fade_in_samples)
         THEN /\ KsRaise("ValueError", "fade_in")
              /\ UNCHANGED output
         ELSE IF ~Broadcasts(Min(num_samples, fade_out_samples), fade_out_samples)
         THEN /\ KsRaise("ValueError", "fade_out")
              /\ output' = FadeIn(output, fade_in_samples)
         ELSE \E faded \in {FadeOut(FadeIn(output, fade_in_samples), fade_out_samples)} :
              IF Len(faded) = 0
              THEN /\ KsRaise("ValueError", "normalize")
                   /\ output' = faded
              ELSE \E max_amp \in {MaxAbs(faded)} :
                   /\ output' = Normalize(faded, max_amp)
                   /\ ks_pc' = "returned"
                   /\ UNCHANGED ks_exc
    /\ UNCHANGED <<ks_args, num_samples, delay_length, delay_line, ks_i>>

KsNext == KsSizes \/ KsAlloc \/ KsLoop \/ KsPostProcess

KsInit == KsInitOf(PluckCalls)

KsInitFaded == KsInitOf(PluckCallsFaded)

SpecPluck == KsInit /\ [][KsNext]_vars

SpecPluckFaded == KsInitFaded /\ [][KsNext]_vars

(***************************************************************************)
(* Properties of karplus_strong_pluck                                      *)
(***************************************************************************)
KsAllocated == ks_pc \in {"loop", "returned"}

\* C1 (as stated): for every frequency > 0 the initialised delay line has
\* length round(sampleRate / frequency); 401 for 44100 and 110.0.
C1_DelayLengthRounds ==
    (KsAllocated /\ ks_args.frequency > 0) =>
        Len(delay_line) = Round(SAMPLE_RATE, ks_args.frequency)

\* C1 (amended): for every frequency > 0 the initialised delay line has
\* length int(sampleRate / frequency), the quotient truncated toward zero;
\* 400 for 44100 and 110.0.
C1_DelayLengthTruncates ==
    (KsAllocated /\ ks_args.frequency > 0) =>
        /\ Len(delay_line) = SAMPLE_RATE \div ks_args.frequency
        /\ ks_args.frequency = 110 => Len(delay_line) = 400

C1_Witness ==
    /\ ks_pc = "loop"
    /\ ks_args.frequency = 110
    /\ Len(delay_line) = 400
    /\ Round(SAMPLE_RATE, ks_args.frequency) = 401

\* C2: for all valid inputs (frequency > 0 with delay length >= 2, duration > 0,
\* however short) karplus_strong_pluck returns, and the buffer it returns has
\* length exactly round(sampleRate * duration).
C2_ReturnsRoundedLength ==
    (/\ ks_args.frequency > 0
     /\ DelayLength(ks_args.frequency) >= 2
     /\ ks_args.duration.p > 0) =>
        /\ ks_pc # "raised"
        /\ ks_pc = "returned" =>
             Len(output) = Round(SAMPLE_RATE * ks_args.duration.p, ks_args.duration.q)

KsInvalidFrequency ==
    \/ ks_args.frequency <= 0
    \/ DelayLength(ks_args.frequency) < 2

\* C3: with frequency <= 0 or a delay-line length below 2 the call ends in an
\* error raised before any synthesis step runs, and never returns a buffer.
C3_RejectedBeforeSynthesis ==
    KsInvalidFrequency =>
        /\ ks_pc # "returned"
        /\ ks_pc = "raised" => ks_exc.at \in {"delay_length", "delay_line"}
        /\ \A k \in 1..Len(output) : output[k] = QZero

\* the raw signal y: the samples already emitted, then the delay line
KsY(k) == IF k <= ks_i THEN output[k] ELSE delay_line[k - ks_i]

\* C10: the feedback loop is an exact FIFO of fixed length N >= 2: at the start
\* of step i the delay line has length N and holds y[i..i+N-1] in order, where
\* y[k] = x[k] for k < N and
\* y[k] = decay * (brightness * y[k-N] + (1-brightness) * (y[k-N] + y[k-N+1]) / 2).
C10_FifoRecurrence ==
    (ks_pc = "loop" /\ delay_length >= 2) =>
        /\ Len(delay_line) = delay_length
        /\ \A k \in 1..(ks_i + delay_length) :
             KsY(k) =
               IF k <= delay_length THEN Noise(ks_args.noise, k)
               ELSE QMul(ks_args.decay,
                      QAdd(QMul(ks_args.brightness, KsY(k - delay_length)),
                           QMul(QSub(QOne, ks_args.brightness),
                                QDiv(QAdd(KsY(k - delay_length),
                                          KsY(k - delay_length + 1)), Q(2, 1)))))

C10_Witness ==
    /\ ks_pc = "loop"
    /\ delay_length = 3
    /\ ks_i = num_samples
    /\ ks_i > 2 * delay_length
    /\ ks_args.brightness = Q(1, 2)
    /\ ks_args.decay = Q(1, 2)
    /\ \A j \in 1..delay_length : delay_line[j] # QZero /\ delay_line[j] # Noise(ks_args.noise, j)

(***************************************************************************)
(* generate_tanpura_files.py                                               *)
(***************************************************************************)
BEAT_INTERVAL == Dur(6, 10)

CYCLE_BEATS == 6

SUSTAIN_DURATION == Dur(10, 1)

Harmonic(n, amp100) == [num |-> n, amp |-> Q(amp100, 100)]

HARMONICS ==
    << Harmonic(1, 26), Harmonic(2, 26), Harmonic(3, 4), Harmonic(4, 81),
       Harmonic(5, 49), Harmonic(6, 49), Harmonic(7, 100), Harmonic(8, 24),
       Harmonic(9, 54), Harmonic(10, 34), Harmonic(11, 45), Harmonic(12, 8),
       Harmonic(13, 7), Harmonic(14, 4), Harmonic(15, 3), Harmonic(16, 5),
       Harmonic(17, 33), Harmonic(18, 5), Harmonic(19, 28), Harmonic(20, 9) >>

STRING1_NOTES == <<"P", "m", "N">>

NOTE_RATIOS ==
    [note \in {"S", "r", "R", "g", "G", "m", "M", "P", "d", "D", "n", "N"} |->
        CASE note = "S" -> Q(1, 1)   [] note = "r" -> Q(16, 15)
          [] note = "R" -> Q(9, 8)   [] note = "g" -> Q(6, 5)
          [] note = "G" -> Q(5, 4)   [] note = "m" -> Q(4, 3)
          [] note = "M" -> Q(45, 32) [] note = "P" -> Q(3, 2)
          [] note = "d" -> Q(8, 5)   [] note = "D" -> Q(5, 3)
          [] note = "n" -> Q(16, 9)  [] note = "N" -> Q(15, 8)]

\* the module-level audio configuration; the scripts ship Shipped
Config(sr, bi, cb, sustain, harmonics) ==
    [sample_rate |-> sr, beat_interval |-> bi, cycle_beats |-> cb,
     sustain_duration |-> sustain, harmonics |-> harmonics]

Shipped == Config(SAMPLE_RATE, BEAT_INTERVAL, CYCLE_BEATS, SUSTAIN_DURATION, HARMONICS)

\* number of oscillator phase patterns the model draws
WavePatterns == 2

\* harmonic_decay * harmonic_modulation * sin(phase + harmonic_phase_shift) at
\* sample i: a transcendental value, determined by the call and drawn by the
\* model from {-1, -1/2, 0, 1/2, 1}
HarmonicWave(wave, frequency, harmonic_num, i) ==
    Q(((wave * (i + 1) + frequency.n + frequency.d + harmonic_num * i) % 5) - 2, 2)

\* the envelope at sample i: sigmoid attack while t < attack_duration, then
\* exponential decay; both strictly between 0 and 1
Envelope(sample_rate, attack_duration, i) ==
    IF QGt(attack_duration, Q(i, sample_rate)) THEN Q(1, 2) ELSE Q(3, 4)

\* the sum of the amplitudes lo..hi of the table, by halving
RECURSIVE SumAmpRange(_, _, _)
SumAmpRange(harmonics, lo, hi) ==
    IF lo = hi THEN harmonics[lo].amp
    ELSE LET mid == (lo + hi) \div 2
         IN  QAdd(SumAmpRange(harmonics, lo, mid), SumAmpRange(harmonics, mid + 1, hi))

\* sum(amp for _, amp in HARMONICS), the int 0 for an empty table
SumAmp(harmonics) ==
    IF Len(harmonics) = 0 THEN QZero ELSE SumAmpRange(harmonics, 1, Len(harmonics))

\* one harmonic's contribution to sample i (i counted from 0)
HarmonicTerm(call, h, i) ==
    QMul(call.harmonics[h].amp,
         HarmonicWave(call.wave, call.frequency, call.harmonics[h].num, i))

\* np.clip(x, -1.0, 1.0); nan stays nan
NpClip(x) ==
    IF IsNaN(x) THEN x
    ELSE IF QGt(x, QOne) THEN QOne
    ELSE IF QGt(Q(0 - 1, 1), x) THEN Q(0 - 1, 1)
    ELSE x

\* lines 142-145 for sample i: envelope, amplitude variation and volume over
\* the amplitude sum (an array divided by 0 gives inf or nan, not an error),
\* hard clip, final gain
FinishSample(call, raw, i) ==
    QMul(NpClip(QMul(raw,
                     QDiv(QMul(QMul(Envelope(call.sample_rate, call.attack_duration, i),
                                    call.amplitude_variation),
                               call.volume),
                          SumAmp(call.harmonics)))),
         Q(8, 10))

RECURSIVE RawSample(_, _, _)
\* the sum of the harmonics h..end at sample i
RawSample(call, h, i) ==
    IF h > Len(call.harmonics) THEN QZero
    ELSE QAdd(HarmonicTerm(call, h, i), RawSample(call, h + 1, i))

\* len(generate_string_pluck(...)): num_samples = int(SAMPLE_RATE * duration)
StringLen(call) == call.num_samples

\* generate_string_pluck(...)[i]: the function is deterministic in its call
StringSample(call, i) == FinishSample(call, RawSample(call, 1, i), i)

StringCall(cfg, wave, frequency, duration, amplitude_variation, attack_duration, volume) ==
    [sample_rate |-> cfg.sample_rate, harmonics |-> cfg.harmonics, wave |-> wave,
     frequency |-> frequency, duration |-> duration,
     amplitude_variation |-> amplitude_variation,
     attack_duration |-> attack_duration, volume |-> volume,
     num_samples |-> IntOfProduct(duration.p, duration.q, cfg.sample_rate)]

\* harmonic tables the model runs generate_string_pluck with
SmallTables ==
    { <<Harmonic(1, 26), Harmonic(7, 100)>>,
      <<Harmonic(1, 50), Harmonic(2, 25), Harmonic(4, 81)>> }

StringCalls ==
    { StringCall(Config(50, BEAT_INTERVAL, CYCLE_BEATS, SUSTAIN_DURATION, tbl),
                 w, f, Dur(k, 10), Q(98, 100), Q(1, 10), vol) :
        tbl \in SmallTables \cup {HARMONICS, <<>>}, w \in 0..WavePatterns,
        f \in {Q(13081, 100), Q(110, 1)}, k \in {1, 2}, vol \in {Q(1, 2), Q(3, 1)} }

SpInit ==
    /\ KsIdle /\ CyIdle /\ MnIdle
    /\ sp_pc = "call"
    /\ sp_call \in StringCalls
    /\ samples = <<>>
    /\ sp_h = 0

\* lines 97-110: zeroed buffer, time axis, envelope
SpAlloc ==
    /\ UNCHANGED <<ksVars, cyVars, mnVars>>
    /\ sp_pc = "call"
    /\ StringLen(sp_call) <= MaxSamples
    /\ samples' = NpZeros(StringLen(sp_call))
    /\ sp_h' = 1
    /\ sp_pc' = "harmonics"
    /\ UNCHANGED sp_call

\* lines 112-139: one harmonic added to every sample
SpHarmonic ==
    /\ UNCHANGED <<ksVars, cyVars, mnVars>>
    /\ sp_pc = "harmonics"
    /\ sp_h <= Len(sp_call.harmonics)
    /\ samples' = [j \in 1..Len(samples) |->
                     QAdd(samples[j], HarmonicTerm(sp_call, sp_h, j - 1))]
    /\ sp_h' = sp_h + 1
    /\ UNCHANGED <<sp_pc, sp_call>>

\* lines 141-147: normalise by the amplitude sum, clip, gain, return
SpFinish ==
    /\ UNCHANGED <<ksVars, cyVars, mnVars>>
    /\ sp_pc = "harmonics"
    /\ sp_h > Len(sp_call.harmonics)
    /\ samples' = [j \in 1..Len(samples) |-> FinishSample(sp_call, samples[j], j - 1)]
    /\ sp_pc' = "returned"
    /\ UNCHANGED <<sp_call, sp_h>>

SpNext == SpAlloc \/ SpHarmonic \/ SpFinish

SpecString == SpInit /\ [][SpNext]_vars

(***************************************************************************)
(* Properties of generate_string_pluck                                     *)
(***************************************************************************)
\* C8: with an empty harmonic table generate_string_pluck returns a buffer of
\* the requested length in which every sample is 0; no undefined value comes
\* out of the division by the zero amplitude sum.
C8_EmptyTableIsSilence ==
    (sp_pc = "returned" /\ sp_call.harmonics = <<>>) =>
        /\ Len(samples) = StringLen(sp_call)
        /\ \A j \in 1..Len(samples) : samples[j] = QZero

(***************************************************************************)
(* generate_tanpura_cycle                                                  *)
(***************************************************************************)
\* pluck_offsets, in beats, of String1..String4
PluckOffsets == <<0, 2, 3, 4>>

\* int(SAMPLE_RATE * BEAT_INTERVAL)
BeatIntervalSamples(cfg) ==
    IntOfProduct(cfg.beat_interval.p, cfg.beat_interval.q, cfg.sample_rate)

\* a cycle size rounded to the nearest sample instead of truncated
CycleSizeRounded(cfg) ==
    Round(cfg.sample_rate * cfg.beat_interval.p * cfg.cycle_beats, cfg.beat_interval.q)

\* CYCLE_DURATION = BEAT_INTERVAL * CYCLE_BEATS, a float
CycleDuration(cfg) ==
    CHOOSE y \in { FMulInt(x, cfg.cycle_beats) :
                     x \in {Double(cfg.beat_interval.p, cfg.beat_interval.q)} } : TRUE

\* int(SAMPLE_RATE * CYCLE_DURATION)
CycleSize(cfg) ==
    CHOOSE k \in { PyInt(z) : z \in { FMulInt(y, cfg.sample_rate) :
                                        y \in {CycleDuration(cfg)} } } : TRUE

\* int(SAMPLE_RATE * 0.020)
StereoTimingOffset(cfg) == IntOfProduct(20, 1000, cfg.sample_rate)

\* pluck_offsets[string_index] * beat_interval_samples
MixOffset(k, bis) == PluckOffsets[k] * bis

\* (offset + i) % cycle_size
BufferIndex(offset, i, size) == (offset + i) % size

\* a mix that overwrites instead of accumulating
AccumulateOverwrite(buf, index, x) == [buf EXCEPT ![index + 1] = x]

\* mono_buffer[buffer_index] += string_samples[i]
Accumulate(buf, index, x) == [buf EXCEPT ![index + 1] = QAdd(buf[index + 1], x)]

\* a scaling that always brings the peak to the ceiling
ScaleToPeakAlways(buf, max_amp) ==
    [j \in 1..Len(buf) |-> QMul(buf[j], QDiv(Q(85, 100), max_amp))]

\* if max_amp > 0.85: mono_buffer *= 0.85 / max_amp
ScaleToPeak(buf, max_amp) ==
    IF QGt(max_amp, Q(85, 100))
    THEN [j \in 1..Len(buf) |-> QMul(buf[j], QDiv(Q(85, 100), max_amp))]
    ELSE buf

\* a stereo frame without the inter-channel delay
StereoFrameNoDelay(mono, i, offset, size) ==
    <<QMul(mono[i + 1], Q(75, 100)), QMul(mono[i + 1], Q(75, 100))>>

\* stereo_buffer[i]: left = mono[i] * panning_l, right = mono[(i + offset) % size] * panning_r
StereoFrame(mono, i, offset, size) ==
    <<QMul(mono[i + 1], Q(75, 100)), QMul(mono[((i + offset) % size) + 1], Q(75, 100))>>

\* scaled-down audio configurations with cycles of a few samples
\* (as with the shipped values, a beat is a whole number of samples)
SmallConfigs ==
    { Config(50, Dur(6, 100), CYCLE_BEATS, sus, tbl) :
        sus \in {Dur(1, 100), Dur(2, 10), Dur(1, 1), Dur(2, 1)}, tbl \in SmallTables }
    \cup
    { Config(100, Dur(3, 100), CYCLE_BEATS - 1, Dur(2, 10), tbl) : tbl \in SmallTables }

CycleArgs(sa, note, wave) == [sa_frequency |-> sa, string1_note |-> note, wave |-> wave]

CyInit ==
    /\ KsIdle /\ SpIdle /\ MnIdle
    /\ cy_pc = "call"
    /\ cy_cfg \in SmallConfigs \cup {Shipped}
    /\ cy_args \in { CycleArgs(sa, STRING1_NOTES[n], w) :
                       sa \in {Q(13081, 100)}, n \in {1, 3}, w \in 1..WavePatterns }
    /\ all_strings = <<>>
    /\ beat_interval_samples = 0
    /\ cycle_size = 0
    /\ mono_buffer = <<>>
    /\ string_index = 0
    /\ cy_i = 0
    /\ stereo_timing_offset = 0
    /\ stereo_buffer = <<>>
    /\ cy_exc = NoException

\* lines 152-183: the four strings; each buffer is held as the call that
\* produces it, StringSample giving its samples
CyStrings ==
    /\ UNCHANGED <<ksVars, spVars, mnVars>>
    /\ cy_pc = "call"
    /\ LET sa == cy_args.sa_frequency
           string1_freq == QDiv(QMul(sa, NOTE_RATIOS[cy_args.string1_note]), Q(2, 1))
           string4_freq == QDiv(sa, Q(2, 1))
           S(f, av, attack) ==
               StringCall(cy_cfg, cy_args.wave, f, cy_cfg.sustain_duration,
                          av, attack, Q(1, 2))
       IN  all_strings' = << S(string1_freq, Q(98, 100), Q(4, 10)),
                             S(sa, QOne, Q(8, 10)),
                             S(sa, QOne, Q(8, 10)),
                             S(string4_freq, Q(96, 100), Q(6, 10)) >>
    /\ cy_pc' = "sizes"
    /\ UNCHANGED <<cy_cfg, cy_args, beat_interval_samples, cycle_size, mono_buffer,
                   string_index, cy_i, stereo_timing_offset, stereo_buffer, cy_exc>>

\* lines 186-187: beat_interval_samples and cycle_size
CySizes ==
    /\ UNCHANGED <<ksVars, spVars, mnVars>>
    /\ cy_pc = "sizes"
    /\ beat_interval_samples' = BeatIntervalSamples(cy_cfg)
    /\ cycle_size' = CycleSize(cy_cfg)
    /\ cy_pc' = "alloc"
    /\ UNCHANGED <<cy_cfg, cy_args, all_strings, mono_buffer, string_index, cy_i,
                   stereo_timing_offset, stereo_buffer, cy_exc>>

\* line 188: the zeroed mono buffer
CyAlloc ==
    /\ UNCHANGED <<ksVars, spVars, mnVars>>
    /\ cy_pc = "alloc"
    /\ cycle_size <= MaxSamples
    /\ mono_buffer' = NpZeros(cycle_size)
    /\ string_index' = 1
    /\ cy_i' = 0
    /\ cy_pc' = "mix"
    /\ UNCHANGED <<cy_cfg, cy_args, all_strings, beat_interval_samples, cycle_size,
                   stereo_timing_offset, stereo_buffer, cy_exc>>

CyWithinBounds ==
    \A k \in 1..Len(all_strings) : StringLen(all_strings[k]) <= MaxSamples

\* the loop position after sample i of string k
CyAdvance(k, i) ==
    IF i + 1 < StringLen(all_strings[k])
    THEN /\ string_index' = k /\ cy_i' = i + 1
    ELSE /\ string_index' = k + 1 /\ cy_i' = 0

\* lines 191-196: one sample of one string mixed into the cycle
CyMix ==
    /\ UNCHANGED <<ksVars, spVars, mnVars>>
    /\ cy_pc = "mix"
    /\ CyWithinBounds
    /\ string_index <= Len(all_strings)
    /\ IF StringLen(all_strings[string_index]) = 0
       THEN /\ string_index' = string_index + 1
            /\ UNCHANGED <<mono_buffer, cy_i, cy_pc, cy_exc>>
       ELSE IF cycle_size = 0
       THEN /\ cy_pc' = "raised"
            /\ cy_exc' = [type |-> "ZeroDivisionError", at |-> "buffer_index"]
            /\ UNCHANGED <<mono_buffer, string_index, cy_i>>
       ELSE /\ mono_buffer' =
                 Accumulate(mono_buffer,
                            BufferIndex(MixOffset(string_index, beat_interval_samples),
                                        cy_i, cycle_size),
                            StringSample(all_strings[string_index], cy_i))
            /\ CyAdvance(string_index, cy_i)
            /\ UNCHANGED <<cy_pc, cy_exc>>
    /\ UNCHANGED <<cy_cfg, cy_args, all_strings, beat_interval_samples, cycle_size,
                   stereo_timing_offset, stereo_buffer>>

\* lines 199-201: peak normalisation of the mono cycle
CyNormalize ==
    /\ UNCHANGED <<ksVars, spVars, mnVars>>
    /\ cy_pc = "mix"
    /\ CyWithinBounds
    /\ string_index > Len(all_strings)
    /\ IF cycle_size = 0
       THEN /\ cy_pc' = "raised"
            /\ cy_exc' = [type |-> "ValueError", at |-> "max_amp"]
            /\ UNCHANGED mono_buffer
       ELSE /\ \E max_amp \in {MaxAbs(mono_buffer)} :
                 mono_buffer' = ScaleToPeak(mono_buffer, max_amp)
            /\ cy_pc' = "normalized"
            /\ UNCHANGED cy_exc
    /\ UNCHANGED <<cy_cfg, cy_args, all_strings, beat_interval_samples, cycle_size,
                   string_index, cy_i, stereo_timing_offset, stereo_buffer>>

\* lines 204-207: Haas delay and the zeroed stereo buffer
CyStereoAlloc ==
    /\ UNCHANGED <<ksVars, spVars, mnVars>>
    /\ cy_pc = "normalized"
    /\ stereo_timing_offset' = StereoTimingOffset(cy_cfg)
    /\ stereo_buffer' = [j \in 1..cycle_size |-> <<QZero, QZero>>]
    /\ cy_i' = 0
    /\ cy_pc' = "stereo"
    /\ UNCHANGED <<cy_cfg, cy_args, all_strings, beat_interval_samples, cycle_size,
                   mono_buffer, string_index, cy_exc>>

\* lines 209-213: one stereo frame
CyStereo ==
    /\ UNCHANGED <<ksVars, spVars, mnVars>>
    /\ cy_pc = "stereo"
    /\ cy_i < cycle_size
    /\ stereo_buffer' =
         [stereo_buffer EXCEPT ![cy_i + 1] =
            StereoFrame(mono_buffer, cy_i, stereo_timing_offset, cycle_size)]
    /\ cy_i' = cy_i + 1
    /\ UNCHANGED <<cy_pc, cy_cfg, cy_args, all_strings, beat_interval_samples,
                   cycle_size, mono_buffer, string_index, stereo_timing_offset, cy_exc>>

\* line 215: return stereo_buffer
CyReturn ==
    /\ UNCHANGED <<ksVars, spVars, mnVars>>
    /\ cy_pc = "stereo"
    /\ cy_i = cycle_size
    /\ cy_pc' = "returned"
    /\ UNCHANGED <<cy_cfg, cy_args, all_strings, beat_interval_samples, cycle_size,
                   mono_buffer, string_index, cy_i, stereo_timing_offset,
                   stereo_buffer, cy_exc>>

CyNext == CyStrings \/ CySizes \/ CyAlloc \/ CyMix \/ CyNormalize \/ CyStereoAlloc \/ CyStereo \/ CyReturn

SpecCycle == CyInit /\ [][CyNext]_vars

(***************************************************************************)
(* Properties of generate_tanpura_cycle                                    *)
(***************************************************************************)
CySized == cy_pc \notin {"call", "sizes"}

CyAllocated == cy_pc \notin {"call", "sizes", "alloc"}

\* C4: the mono cycle buffer always has length exactly
\* round(sampleRate * beatInterval * cycleBeats), whatever the string lengths
\* (158760 for 44100, 0.6 and 6).
C4_CycleLengthRounds ==
    /\ CySized => cycle_size = CycleSizeRounded(cy_cfg)
    /\ CyAllocated => Len(mono_buffer) = CycleSizeRounded(cy_cfg)
    /\ (CySized /\ cy_cfg = Shipped) => cycle_size = 158760

\* the starting offset of string k as the specification states it
RoundedOffset(k) ==
    Round(PluckOffsets[k] * cy_cfg.beat_interval.p * cy_cfg.sample_rate,
          cy_cfg.beat_interval.q)

\* the samples <<string k, sample index i>> that land on cycle index j
LandingOn(j) ==
    UNION { { <<k, i>> : i \in { x \in 0..(StringLen(all_strings[k]) - 1) :
                                   (RoundedOffset(k) + x) % cycle_size = j } } :
            k \in 1..Len(all_strings) }

\* a set of samples in the order the mixer meets them
InMixOrder(S) ==
    LET Key(s) == s[1] * (MaxSamples + 1) + s[2]
    IN  [r \in 1..Cardinality(S) |->
            CHOOSE s \in S : Cardinality({t \in S : Key(t) <= Key(s)}) = r]

\* the sum of the samples lo..hi of seq, by halving
RECURSIVE SumSamples(_, _, _)
SumSamples(seq, lo, hi) ==
    IF lo > hi THEN QZero
    ELSE IF lo = hi THEN StringSample(all_strings[seq[lo][1]], seq[lo][2])
    ELSE LET mid == (lo + hi) \div 2
         IN  QAdd(SumSamples(seq, lo, mid), SumSamples(seq, mid + 1, hi))

\* the sum of all the string samples that land on cycle index j
MixedSum(j) ==
    LET seq == InMixOrder(LandingOn(j))
    IN  SumSamples(seq, 1, Len(seq))

CyMixed == cy_pc = "mix" /\ CyWithinBounds /\ string_index > Len(all_strings)

\* C5: before normalisation every cycle index j holds the sum of all string
\* samples s[i] with (offset_s + i) mod cycleLength = j, offset_s =
\* round(offsetBeats * beatInterval * sampleRate): samples are accumulated,
\* wrap around as often as needed, none is dropped, and no write falls
\* outside [0, cycleLength).
C5_MixAccumulates ==
    /\ (cy_pc = "mix" /\ CyWithinBounds /\ string_index <= Len(all_strings)
        /\ StringLen(all_strings[string_index]) > 0 /\ cycle_size > 0) =>
          LET index == BufferIndex(MixOffset(string_index, beat_interval_samples),
                                   cy_i, cycle_size)
          IN  index >= 0 /\ index < cycle_size
    /\ CyMixed =>
          /\ Len(mono_buffer) = cycle_size
          /\ \A j \in 0..(cycle_size - 1) : mono_buffer[j + 1] = MixedSum(j)
    /\ (CySized /\ cy_cfg = Shipped) =>
          [k \in 1..4 |-> MixOffset(k, beat_interval_samples)] = <<0, 52920, 79380, 105840>>

\* strings longer than the cycle have been mixed, wrapping more than once
C5_Witness ==
    /\ CyMixed
    /\ cycle_size > 0
    /\ StringLen(all_strings[1]) > 2 * cycle_size
    /\ \E j \in 1..cycle_size : mono_buffer[j] # QZero

\* what the step from the mixed to the normalised buffer has to do
C6_NormalizeStep ==
    (cy_pc = "mix" /\ cy_pc' = "normalized") =>
        LET peak == MaxAbs(mono_buffer)
        IN  /\ Len(mono_buffer') = Len(mono_buffer)
            /\ IF QGt(peak, Q(85, 100))
               THEN /\ \A j \in 1..Len(mono_buffer) :
                         mono_buffer'[j] = QMul(mono_buffer[j], QDiv(Q(85, 100), peak))
                    /\ MaxAbs(mono_buffer') = Q(85, 100)
               ELSE mono_buffer' = mono_buffer
            /\ \A j \in 1..Len(mono_buffer) : ~QGt(QAbs(mono_buffer'[j]), Q(85, 100))
            /\ (\A j \in 1..Len(mono_buffer) : mono_buffer[j] = QZero) =>
                   (\A j \in 1..Len(mono_buffer) : mono_buffer'[j] = QZero)

C7_StereoFrames ==
    /\ cy_pc = "returned" =>
          /\ Len(stereo_buffer) = Len(mono_buffer)
          /\ \A i \in 0..(Len(mono_buffer) - 1) :
               /\ stereo_buffer[i + 1][1] = QMul(Q(3, 4), mono_buffer[i + 1])
               /\ stereo_buffer[i + 1][2] =
                    QMul(Q(3, 4),
                         mono_buffer[((i + stereo_timing_offset) % Len(mono_buffer)) + 1])
    /\ cy_pc \in {"stereo", "returned"} =>
          stereo_timing_offset = Round(20 * cy_cfg.sample_rate, 1000)
    /\ StereoTimingOffset(Shipped) = 882

\* C7: the stereo buffer has as many frames as the mono cycle, with
\* left[i] = panLeft * mono[i] and right[i] = panRight * mono[(i + d) mod N];
\* rendering does not modify the mono buffer and clips nothing (d = 882 for 44100).
C7_StereoRender ==
    /\ [][(cy_pc \in {"normalized", "stereo"}) => (mono_buffer' = mono_buffer)]_vars
    /\ []C7_StereoFrames

\* a cycle rendered with a non-zero delay whose channels differ
C7_Witness ==
    /\ cy_pc = "returned"
    /\ stereo_timing_offset = 2
    /\ Len(stereo_buffer) = 15
    /\ \E i \in 1..Len(stereo_buffer) : stereo_buffer[i][1] # stereo_buffer[i][2]

(***************************************************************************)
(* main() of generate_reference_plucks.py and of generate_tanpura_files.py *)
(***************************************************************************)
SA_FREQUENCIES ==
    <<"gs2", "a2", "as2", "b2", "c3", "cs3", "d3", "ds3", "e3", "f3", "fs3", "g3",
      "gs3", "a3", "as3">>

SWARS == <<"S", "r", "R", "g", "G", "m", "M", "P", "d", "D", "n", "N">>

\* the inner table of the script's nested loop
InnerTable(script) == IF script = "plucks" THEN SWARS ELSE STRING1_NOTES

\* total_files = len(SA_FREQUENCIES) * len(<inner table>)
TotalFiles(script) == Len(SA_FREQUENCIES) * Len(InnerTable(script))

\* the file of the count-th combination of the nested loop (count from 1)
FileName(script, count) ==
    LET inner    == Len(InnerTable(script))
        sa_name  == SA_FREQUENCIES[((count - 1) \div inner) + 1]
        index    == ((count - 1) % inner) + 1
    IN  IF script = "plucks"
        THEN <<sa_name, index, SWARS[index]>>
        ELSE <<sa_name, STRING1_NOTES[index]>>

\* what the synthesis call and sf.write of one combination can do
Outcomes == {"ok", "synthesis raises", "write raises"}

\* neither main() has a try/except: the exception leaves the loops and main
MnAfterFailure(outcome) ==
    /\ mn_pc' = "aborted"
    /\ mn_exc' = [file |-> FileName(mn_script, file_count + 1), cause |-> outcome]
    /\ UNCHANGED written

MnInit ==
    /\ KsIdle /\ SpIdle /\ CyIdle
    /\ mn_pc = "loop"
    /\ mn_script \in {"plucks", "tanpura"}
    /\ file_count = 0
    /\ written = {}
    /\ mn_exc = NoFailure

\* one combination of the nested loop: plucks lines 126-152, tanpura lines 236-252
MnIterate ==
    /\ UNCHANGED <<ksVars, spVars, cyVars>>
    /\ mn_pc = "loop"
    /\ file_count < TotalFiles(mn_script)
    /\ file_count' = file_count + 1
    /\ \E outcome \in Outcomes :
         IF outcome = "ok"
         THEN /\ written' = written \cup {FileName(mn_script, file_count + 1)}
              /\ UNCHANGED <<mn_pc, mn_exc>>
         ELSE MnAfterFailure(outcome)
    /\ UNCHANGED mn_script

\* the closing report: plucks lines 154-158, tanpura lines 254-257
MnFinish ==
    /\ UNCHANGED <<ksVars, spVars, cyVars>>
    /\ mn_pc = "loop"
    /\ file_count = TotalFiles(mn_script)
    /\ mn_pc' = "done"
    /\ UNCHANGED <<mn_script, file_count, written, mn_exc>>

MnNext == MnIterate \/ MnFinish

SpecMain == MnInit /\ [][MnNext]_vars

\* C9: a failing combination is recorded and never aborts the run: every
\* remaining combination is still attempted, files already written stay
\* written, and success is reported only if every combination succeeded.
C9_FailureIsolated ==
    /\ mn_pc # "aborted"
    /\ mn_pc \in {"done", "aborted"} => file_count = TotalFiles(mn_script)
    /\ mn_pc = "done" =>
          (mn_exc = NoFailure <=> Cardinality(written) = TotalFiles(mn_script))

====
